---- MODULE Spec2Model ----
(***************************************************************************)
(* A model of UniswapV2Pool (src/uniswap-v2-python-demo.py): the pool's    *)
(* fields, one action per public method, each method translated statement  *)
(* by statement into an operator from (pool, arguments) to (outcome, pool).*)
(*                                                                         *)
(* Python integers are unbounded.  In Spec the arguments and the pool are  *)
(* kept in a range where every intermediate value fits TLC's 32-bit        *)
(* integers, and the one product that does not (the swap numerator for     *)
(* large inputs) is divided without being formed (MulDivMod).  SpecBig and *)
(* SpecInitBig follow calls with larger amounts: there the numbers are     *)
(* digit sequences, and the two places where the class turns an int into   *)
(* a float (initialize_pool, verify_k_invariant) are modelled as doubles.  *)
(* Arguments are integers and strings; the isinstance checks on them       *)
(* therefore always pass and only the range check on the token selector    *)
(* (0 or 1) is modelled.                                                   *)
(***************************************************************************)
EXTENDS Integers, Sequences, FiniteSets, TLC

VARIABLES reserve0, reserve1, total_liquidity, liquidity_providers,
          last, calls, initialized

vars == <<reserve0, reserve1, total_liquidity, liquidity_providers,
          last, calls, initialized>>

(* ---------------- constants of the class (__init__) -------------------- *)
MINIMUM_LIQUIDITY == 1000
FEE_DENOMINATOR == 1000
FEE_NUMERATOR == 997
\* verify_k_invariant's default tolerance 0.000001, as its reciprocal
TOLERANCE_INV == 1000000

(* ---------------- bounds of the model ---------------------------------- *)
\* number of state-changing calls explored
MaxCalls == 3
\* the pool is not grown beyond these (all arithmetic then fits)
MaxReserve == 2000
MaxK == 2000000

\* arguments of the calls
Providers == {"LOCKED", "Alice", "Bob"}
InitProviders == {"LOCKED", "Alice"}
AddProviders == {"LOCKED", "Bob"}
Tokens == {0, 1, 2}
InitAmounts0 == {1000, 1200}
InitAmounts1 == {0, 1000}
AddAmounts0 == {0, 1, 100}
AddAmounts1 == {100, 300}
RemoveAmounts == {0, 50, 100}
SwapAmounts == {0, 1, 400}
SafeSwapAmounts == {1, 400}
MinOuts == {200, 300}
QuoteAmounts == {1, 400}

(* ---------------- the pool as a value ---------------------------------- *)
Pool == [reserve0 |-> reserve0, reserve1 |-> reserve1,
         total_liquidity |-> total_liquidity,
         liquidity_providers |-> liquidity_providers]

\* the dict operations used by the class
DictGet(d, k, default) == IF k \in DOMAIN d THEN d[k] ELSE default

DictSet(d, k, v) == [x \in (DOMAIN d) \cup {k} |-> IF x = k THEN v ELSE d[x]]

\* outcomes of a call: a return value, or an exception raised with the pool
\* as it is at the raise
Return(ret, p) == [ok |-> TRUE, err |-> "", ret |-> ret, pool |-> p]

Raise(err, p) == [ok |-> FALSE, err |-> err, ret |-> <<>>, pool |-> p]

(* ---------------- arithmetic helpers ----------------------------------- *)
\* largest r in lo..hi with r*r <= n (lo*lo <= n assumed)
RECURSIVE SqrtSearch(_, _, _)
SqrtSearch(n, lo, hi) ==
    IF lo >= hi THEN lo
    ELSE LET mid == (lo + hi + 1) \div 2
         IN IF mid <= n \div mid THEN SqrtSearch(n, mid, hi)
            ELSE SqrtSearch(n, lo, mid - 1)

\* int(n ** 0.5): n is converted to a double, its square root is taken in
\* double precision and truncated.  Every n the model forms is below 2^31,
\* so the conversion is exact and the rounded root of a non-square cannot
\* reach the next integer: the result is the largest r with r*r <= n.
\* (int_pow_half_big below is the same computation for any n.)
int_pow_half(n) == SqrtSearch(n, 0, n)

\* <<q, r>> with a*b = q*c + r and 0 <= r < c, for a, b >= 0 and c > 0,
\* computed without forming a*b (binary long multiplication)
RECURSIVE MulDivMod(_, _, _)
MulDivMod(a, b, c) ==
    IF b = 0 THEN <<0, 0>>
    ELSE LET h == MulDivMod(a, b \div 2, c)
             dc == IF h[2] >= c - h[2] THEN 1 ELSE 0
             dr == IF dc = 1 THEN h[2] - (c - h[2]) ELSE h[2] + h[2]
             dq == 2 * h[1] + dc
         IN IF b % 2 = 0 THEN <<dq, dr>>
            ELSE LET am == a % c
                     ac == IF dr >= c - am THEN 1 ELSE 0
                     r == IF ac = 1 THEN dr - (c - am) ELSE dr + am
                 IN <<dq + (a \div c) + ac, r>>

(* ---------------- initialize_pool -------------------------------------- *)
\* already_initialized looking for a negative total instead of a non-zero one
already_initialized_negative(p) == p.total_liquidity < 0

\* self.total_liquidity != 0
already_initialized(p) == p.total_liquidity # 0

\* initialize_pool that sets the reserves before it has checked the computed
\* liquidity
initialize_pool_writes_first(p, amount0, amount1, provider) ==
    IF already_initialized(p) THEN Raise("AssertionError: already initialized", p)
    ELSE IF amount0 <= 0 \/ amount1 <= 0
    THEN Raise("AssertionError: amounts must be positive", p)
    ELSE
    LET liquidity_squared == amount0 * amount1
        written == [p EXCEPT !.reserve0 = amount0, !.reserve1 = amount1]
    IN
    IF liquidity_squared < MINIMUM_LIQUIDITY * MINIMUM_LIQUIDITY
    THEN Raise("AssertionError: initial liquidity too small", p)
    ELSE
    LET liquidity == int_pow_half(liquidity_squared) IN
    IF liquidity <= MINIMUM_LIQUIDITY
    THEN Raise("AssertionError: computed liquidity too small", written)
    ELSE
    LET user_liquidity == liquidity - MINIMUM_LIQUIDITY
        locked == DictSet(p.liquidity_providers, "LOCKED", MINIMUM_LIQUIDITY)
    IN Return(<<user_liquidity>>,
              [reserve0 |-> amount0, reserve1 |-> amount1,
               total_liquidity |-> liquidity,
               liquidity_providers |-> DictSet(locked, provider, user_liquidity)])

initialize_pool(p, amount0, amount1, provider) ==
    IF already_initialized(p) THEN Raise("AssertionError: already initialized", p)
    ELSE IF amount0 <= 0 \/ amount1 <= 0
    THEN Raise("AssertionError: amounts must be positive", p)
    ELSE
    LET liquidity_squared == amount0 * amount1 IN
    IF liquidity_squared < MINIMUM_LIQUIDITY * MINIMUM_LIQUIDITY
    THEN Raise("AssertionError: initial liquidity too small", p)
    ELSE
    LET liquidity == int_pow_half(liquidity_squared) IN
    IF liquidity <= MINIMUM_LIQUIDITY
    THEN Raise("AssertionError: computed liquidity too small", p)
    ELSE
    LET user_liquidity == liquidity - MINIMUM_LIQUIDITY
        locked == DictSet(p.liquidity_providers, "LOCKED", MINIMUM_LIQUIDITY)
    IN Return(<<user_liquidity>>,
              [reserve0 |-> amount0, reserve1 |-> amount1,
               total_liquidity |-> liquidity,
               liquidity_providers |-> DictSet(locked, provider, user_liquidity)])

(* ---------------- add_liquidity ---------------------------------------- *)
\* min taken for max
min_as_max(share0, share1) == IF share0 >= share1 THEN share0 ELSE share1

\* min(share0, share1)
min(share0, share1) == IF share0 <= share1 THEN share0 ELSE share1

add_liquidity(p, amount0, amount1, provider) ==
    IF amount0 <= 0 \/ amount1 <= 0
    THEN Raise("AssertionError: amounts must be positive", p)
    ELSE IF p.reserve0 <= 0 \/ p.reserve1 <= 0
    THEN Raise("AssertionError: pool not initialized", p)
    ELSE IF p.total_liquidity <= 0
    THEN Raise("AssertionError: total liquidity abnormal", p)
    ELSE
    LET share0 == (amount0 * p.total_liquidity) \div p.reserve0
        share1 == (amount1 * p.total_liquidity) \div p.reserve1
        min_share == min(share0, share1)
    IN
    IF min_share <= 0 THEN Raise("AssertionError: liquidity too small", p)
    ELSE
    LET actual_amount0 == (min_share * p.reserve0) \div p.total_liquidity
        actual_amount1 == (min_share * p.reserve1) \div p.total_liquidity
        refund0 == amount0 - actual_amount0
        refund1 == amount1 - actual_amount1
        liquidity == min_share
        entered == IF provider \in DOMAIN p.liquidity_providers
                   THEN p.liquidity_providers
                   ELSE DictSet(p.liquidity_providers, provider, 0)
    IN Return(<<liquidity, actual_amount0, actual_amount1, refund0, refund1>>,
              [reserve0 |-> p.reserve0 + actual_amount0,
               reserve1 |-> p.reserve1 + actual_amount1,
               total_liquidity |-> p.total_liquidity + liquidity,
               liquidity_providers |->
                   DictSet(entered, provider, entered[provider] + liquidity)])

(* ---------------- remove_liquidity ------------------------------------- *)
\* remove_amount with the division by total_liquidity left out
remove_amount_undivided(liquidity, reserve, total) == liquidity * reserve

\* remove_amount rounding the payout up
remove_amount_ceil(liquidity, reserve, total) ==
    (liquidity * reserve + total - 1) \div total

\* the amount of one token paid out: (liquidity * reserve) // total_liquidity
remove_amount(liquidity, reserve, total) == (liquidity * reserve) \div total

\* lacks_shares satisfied by any provider that holds a share
lacks_shares_any(provider_liquidity, liquidity) == provider_liquidity <= 0

\* provider_liquidity < liquidity
lacks_shares(provider_liquidity, liquidity) == provider_liquidity < liquidity

\* keeps_minimum asking only that the shares left are not negative
keeps_minimum_zero(remaining_liquidity) == remaining_liquidity >= 0

\* whether the shares left after a removal keep the locked minimum
keeps_minimum(remaining_liquidity) == remaining_liquidity >= MINIMUM_LIQUIDITY

\* remove_update leaving total_liquidity as it was
remove_update_total_kept(p, liquidity, provider, amount0, amount1) ==
    [reserve0 |-> p.reserve0 - amount0,
     reserve1 |-> p.reserve1 - amount1,
     total_liquidity |-> p.total_liquidity,
     liquidity_providers |->
         DictSet(p.liquidity_providers, provider,
                 p.liquidity_providers[provider] - liquidity)]

\* the four assignments that end remove_liquidity
remove_update(p, liquidity, provider, amount0, amount1) ==
    [reserve0 |-> p.reserve0 - amount0,
     reserve1 |-> p.reserve1 - amount1,
     total_liquidity |-> p.total_liquidity - liquidity,
     liquidity_providers |->
         DictSet(p.liquidity_providers, provider,
                 p.liquidity_providers[provider] - liquidity)]

remove_liquidity(p, liquidity, provider) ==
    IF liquidity <= 0 THEN Raise("AssertionError: liquidity must be positive", p)
    ELSE IF p.total_liquidity <= 0 THEN Raise("AssertionError: no liquidity", p)
    ELSE
    LET provider_liquidity == DictGet(p.liquidity_providers, provider, 0) IN
    IF lacks_shares(provider_liquidity, liquidity)
    THEN Raise("AssertionError: insufficient shares", p)
    ELSE
    LET remaining_liquidity == p.total_liquidity - liquidity IN
    IF ~keeps_minimum(remaining_liquidity)
    THEN Raise("AssertionError: minimum liquidity must remain", p)
    ELSE
    LET amount0 == remove_amount(liquidity, p.reserve0, p.total_liquidity)
        amount1 == remove_amount(liquidity, p.reserve1, p.total_liquidity)
    IN Return(<<amount0, amount1>>,
              remove_update(p, liquidity, provider, amount0, amount1))

(* ---------------- swap -------------------------------------------------- *)
\* swap_denominator without the input added to the input reserve
swap_denominator_stale(reserve_in, amount_in) == reserve_in * FEE_DENOMINATOR

\* denominator of the output amount
swap_denominator(reserve_in, amount_in) ==
    reserve_in * FEE_DENOMINATOR + amount_in * FEE_NUMERATOR

\* numerator // denominator, with numerator = amount_in_with_fee * reserve_out
swap_amount_out(reserve_out, amount_in, denominator) ==
    MulDivMod(amount_in * FEE_NUMERATOR, reserve_out, denominator)[1]

swap(p, token_in, amount_in) ==
    IF token_in \notin {0, 1} THEN Raise("TypeError: token_in must be 0 or 1", p)
    ELSE IF amount_in <= 0 THEN Raise("AssertionError: amount must be positive", p)
    ELSE IF p.reserve0 <= 0 \/ p.reserve1 <= 0
    THEN Raise("AssertionError: pool not initialized", p)
    ELSE
    LET reserve_in == IF token_in = 0 THEN p.reserve0 ELSE p.reserve1
        reserve_out == IF token_in = 0 THEN p.reserve1 ELSE p.reserve0
        denominator == swap_denominator(reserve_in, amount_in)
    IN
    IF denominator <= 0 THEN Raise("AssertionError: bad denominator", p)
    ELSE
    LET amount_out == swap_amount_out(reserve_out, amount_in, denominator) IN
    IF amount_out <= 0 THEN Raise("AssertionError: output too small", p)
    ELSE IF amount_out >= reserve_out
    THEN Raise("AssertionError: output exceeds reserve", p)
    ELSE IF token_in = 0
    THEN Return(<<amount_out>>,
                [p EXCEPT !.reserve0 = p.reserve0 + amount_in,
                          !.reserve1 = p.reserve1 - amount_out])
    ELSE Return(<<amount_out>>,
                [p EXCEPT !.reserve1 = p.reserve1 + amount_in,
                          !.reserve0 = p.reserve0 - amount_out])

(* ---------------- get_amount_out --------------------------------------- *)
\* denominator of the quoted output amount
quote_denominator(reserve_in, amount_in) ==
    reserve_in * FEE_DENOMINATOR + amount_in * FEE_NUMERATOR

\* quote_amount_out with the fee left out of the numerator
quote_amount_out_no_fee(reserve_out, amount_in, denominator) ==
    MulDivMod(amount_in * FEE_DENOMINATOR, reserve_out, denominator)[1]

\* numerator // denominator, with numerator = amount_in_with_fee * reserve_out
quote_amount_out(reserve_out, amount_in, denominator) ==
    MulDivMod(amount_in * FEE_NUMERATOR, reserve_out, denominator)[1]

\* get_amount_out that carries the trade out
get_amount_out_trading(p, token_in, amount_in) == swap(p, token_in, amount_in)

get_amount_out(p, token_in, amount_in) ==
    IF token_in \notin {0, 1} THEN Raise("TypeError: token_in must be 0 or 1", p)
    ELSE IF amount_in <= 0 THEN Raise("AssertionError: amount must be positive", p)
    ELSE IF p.reserve0 <= 0 \/ p.reserve1 <= 0
    THEN Raise("AssertionError: pool not initialized", p)
    ELSE
    LET reserve_in == IF token_in = 0 THEN p.reserve0 ELSE p.reserve1
        reserve_out == IF token_in = 0 THEN p.reserve1 ELSE p.reserve0
        denominator == quote_denominator(reserve_in, amount_in)
    IN
    IF denominator <= 0 THEN Raise("AssertionError: bad denominator", p)
    ELSE
    LET amount_out == quote_amount_out(reserve_out, amount_in, denominator) IN
    IF amount_out <= 0 THEN Raise("AssertionError: output too small", p)
    ELSE IF amount_out >= reserve_out
    THEN Raise("AssertionError: input too large for the pool", p)
    ELSE Return(<<amount_out>>, p)

(* ---------------- get_amount_in ---------------------------------------- *)
\* ceil_div rounding down
ceil_div_floor(numerator, denominator) == numerator \div denominator

\* (numerator + denominator - 1) // denominator: the quotient rounded up
ceil_div(numerator, denominator) == (numerator + denominator - 1) \div denominator

get_amount_in(p, token_out, amount_out) ==
    IF token_out \notin {0, 1} THEN Raise("TypeError: token_out must be 0 or 1", p)
    ELSE IF amount_out <= 0 THEN Raise("AssertionError: amount must be positive", p)
    ELSE IF p.reserve0 <= 0 \/ p.reserve1 <= 0
    THEN Raise("AssertionError: pool not initialized", p)
    ELSE
    LET reserve_out == IF token_out = 0 THEN p.reserve0 ELSE p.reserve1
        reserve_in == IF token_out = 0 THEN p.reserve1 ELSE p.reserve0
    IN
    IF amount_out >= reserve_out
    THEN Raise("AssertionError: output exceeds reserve", p)
    ELSE
    LET numerator == amount_out * reserve_in * FEE_DENOMINATOR
        denominator == (reserve_out - amount_out) * FEE_NUMERATOR
    IN
    IF denominator <= 0 THEN Raise("AssertionError: bad denominator", p)
    ELSE Return(<<ceil_div(numerator, denominator)>>, p)

(* ---------------- get_k_value, verify_k_invariant ---------------------- *)
get_k_value(p) == p.reserve0 * p.reserve1

\* new_k >= old_k * (1.0 - tolerance) with the default tolerance, that is
\* old_k - new_k <= old_k / 1000000, as a comparison of integers (the float
\* product decides the same way for every old_k in the range explored)
verify_k_invariant(p, old_k) ==
    LET new_k == get_k_value(p)
    IN new_k >= old_k - (old_k \div TOLERANCE_INV)

(* ---------------- get_price, get_pool_info ----------------------------- *)
\* float(reserve_out) / float(reserve_in), kept as the two operands of the
\* division; <<0, 1>> stands for the 0.0 of an empty reserve
get_price(p, token) ==
    IF token = 0
    THEN (IF p.reserve0 > 0 THEN <<p.reserve1, p.reserve0>> ELSE <<0, 1>>)
    ELSE (IF p.reserve1 > 0 THEN <<p.reserve0, p.reserve1>> ELSE <<0, 1>>)

\* the values of the dictionary returned, in the order of its keys
get_pool_info(p) ==
    LET provider_count ==
            Cardinality({x \in DOMAIN p.liquidity_providers : x # "LOCKED"})
    IN Return(<<p.reserve0, p.reserve1, p.total_liquidity, get_k_value(p),
                get_price(p, 0), get_price(p, 1),
                DictGet(p.liquidity_providers, "LOCKED", 0), provider_count>>,
              p)

(* ---------------- get_liquidity_info ----------------------------------- *)
\* get_liquidity_info rounding the two values up
get_liquidity_info_ceil(p, provider) ==
    LET liquidity == DictGet(p.liquidity_providers, provider, 0) IN
    IF p.total_liquidity <= 0 THEN Return(<<0, 0, 0>>, p)
    ELSE Return(<<liquidity,
                  (liquidity * p.reserve0 + p.total_liquidity - 1)
                      \div p.total_liquidity,
                  (liquidity * p.reserve1 + p.total_liquidity - 1)
                      \div p.total_liquidity>>, p)

get_liquidity_info(p, provider) ==
    LET liquidity == DictGet(p.liquidity_providers, provider, 0) IN
    IF p.total_liquidity <= 0 THEN Return(<<0, 0, 0>>, p)
    ELSE Return(<<liquidity,
                  (liquidity * p.reserve0) \div p.total_liquidity,
                  (liquidity * p.reserve1) \div p.total_liquidity>>, p)

(* ---------------- safe_swap_with_slippage ------------------------------ *)
\* slippage_exceeded with the comparison turned round
slippage_exceeded_reversed(predicted_out, min_amount_out) ==
    predicted_out > min_amount_out

\* predicted_out < min_amount_out, the test made before the swap
slippage_exceeded(predicted_out, min_amount_out) == predicted_out < min_amount_out


safe_swap_with_slippage(p, token_in, amount_in, min_amount_out) ==
    LET predicted == get_amount_out(p, token_in, amount_in) IN
    IF ~predicted.ok THEN Raise(predicted.err, p)
    ELSE IF slippage_exceeded(predicted.ret[1], min_amount_out)
    THEN Raise("AssertionError: slippage too large", p)
    ELSE
    LET old_k == get_k_value(p)
        swapped == swap(p, token_in, amount_in)
    IN
    IF ~swapped.ok THEN Raise(swapped.err, swapped.pool)
    ELSE IF ~verify_k_invariant(swapped.pool, old_k)
    THEN Raise("AssertionError: k invariant check failed", swapped.pool)
    ELSE IF swapped.ret[1] < min_amount_out
    THEN Raise("AssertionError: output below minimum", swapped.pool)
    ELSE Return(<<swapped.ret[1]>>, swapped.pool)

(* ---------------- the state machine ------------------------------------ *)
EmptyPool == [reserve0 |-> 0, reserve1 |-> 0, total_liquidity |-> 0,
              liquidity_providers |-> [x \in {} |-> 0]]

Init ==
    /\ reserve0 = 0
    /\ reserve1 = 0
    /\ total_liquidity = 0
    /\ liquidity_providers = [x \in {} |-> 0]
    /\ last = [op |-> "__init__", args |-> <<>>, ok |-> TRUE, err |-> "",
               ret |-> <<>>, pre |-> EmptyPool]
    /\ calls = 0
    /\ initialized = FALSE

\* a call changes the pool only within the explored range
InRange(p) ==
    /\ p.reserve0 <= MaxReserve
    /\ p.reserve1 <= MaxReserve
    /\ p.reserve0 <= MaxK \div (IF p.reserve1 > 0 THEN p.reserve1 ELSE 1)

\* the effect of a call with outcome res: the pool it leaves, and the record
\* of the call
Call(op, args, res) ==
    /\ res.pool # Pool => (calls < MaxCalls /\ InRange(res.pool))
    /\ reserve0' = res.pool.reserve0
    /\ reserve1' = res.pool.reserve1
    /\ total_liquidity' = res.pool.total_liquidity
    /\ liquidity_providers' = res.pool.liquidity_providers
    /\ last' = [op |-> op, args |-> args, ok |-> res.ok, err |-> res.err,
                ret |-> res.ret, pre |-> Pool]
    /\ calls' = IF res.pool # Pool THEN calls + 1 ELSE calls
    /\ initialized' = (initialized \/ (op = "initialize_pool" /\ res.ok))

InitializePool ==
    \E amount0 \in InitAmounts0, amount1 \in InitAmounts1, provider \in InitProviders :
        Call("initialize_pool", <<amount0, amount1, provider>>,
             initialize_pool(Pool, amount0, amount1, provider))

AddLiquidity ==
    \E amount0 \in AddAmounts0, amount1 \in AddAmounts1, provider \in AddProviders :
        Call("add_liquidity", <<amount0, amount1, provider>>,
             add_liquidity(Pool, amount0, amount1, provider))

RemoveLiquidity ==
    \E liquidity \in RemoveAmounts, provider \in Providers :
        Call("remove_liquidity", <<liquidity, provider>>,
             remove_liquidity(Pool, liquidity, provider))

Swap ==
    \E token_in \in Tokens, amount_in \in SwapAmounts :
        Call("swap", <<token_in, amount_in>>, swap(Pool, token_in, amount_in))

SafeSwap ==
    \E token_in \in Tokens, amount_in \in SafeSwapAmounts, min_amount_out \in MinOuts :
        Call("safe_swap_with_slippage", <<token_in, amount_in, min_amount_out>>,
             safe_swap_with_slippage(Pool, token_in, amount_in, min_amount_out))

GetAmountOut ==
    \E token_in \in Tokens, amount_in \in QuoteAmounts :
        Call("get_amount_out", <<token_in, amount_in>>,
             get_amount_out(Pool, token_in, amount_in))

\* the outputs asked for: none, the most the pool can give, and the whole
\* reserve of the token asked for
QuoteOuts(token_out) ==
    LET r == IF token_out = 0 THEN reserve0 ELSE reserve1
    IN {0, r - 1, r}

GetAmountIn ==
    \E token_out \in Tokens : \E amount_out \in QuoteOuts(token_out) :
        Call("get_amount_in", <<token_out, amount_out>>,
             get_amount_in(Pool, token_out, amount_out))

GetKValue == Call("get_k_value", <<>>, Return(<<get_k_value(Pool)>>, Pool))

GetLiquidityInfo ==
    \E provider \in Providers :
        Call("get_liquidity_info", <<provider>>,
             get_liquidity_info(Pool, provider))

GetPoolInfo == Call("get_pool_info", <<>>, get_pool_info(Pool))

Next ==
    \/ InitializePool
    \/ AddLiquidity
    \/ RemoveLiquidity
    \/ Swap
    \/ SafeSwap
    \/ GetAmountOut
    \/ GetAmountIn
    \/ GetKValue
    \/ GetLiquidityInfo
    \/ GetPoolInfo

Spec == Init /\ [][Next]_vars

(* ======================= properties ===================================== *)
\* the sum of the balances of a share mapping
RECURSIVE SumOver(_, _)
SumOver(d, keys) ==
    IF keys = {} THEN 0
    ELSE LET k == CHOOSE x \in keys : TRUE
         IN d[k] + SumOver(d, keys \ {k})

\* sum(liquidity_providers.values())
SumShares(d) == SumOver(d, DOMAIN d)

Locked(d) == DictGet(d, "LOCKED", 0)

K(p) == p.reserve0 * p.reserve1

\* C1: in every reachable state total_liquidity equals the sum of all share
\* balances of liquidity_providers, the LOCKED entry included.
C1_TotalIsSumOfShares == total_liquidity = SumShares(liquidity_providers)

\* C2: once initialize_pool has succeeded, the balance recorded under
\* "LOCKED" equals MINIMUM_LIQUIDITY in every later state.
C2_LockedIsMinimum == initialized => Locked(liquidity_providers) = MINIMUM_LIQUIDITY

\* C3: a call that fails leaves reserve0, reserve1, total_liquidity and every
\* share balance as they were before the call.
C3_FailureLeavesPool == ~last.ok => Pool = last.pre

\* C4: after every successful swap the product reserve0 * reserve1 is at
\* least the product before the swap.
C4_ProductNeverDecreases ==
    (last.op \in {"swap", "safe_swap_with_slippage"} /\ last.ok)
        => K(Pool) >= K(last.pre)

C4_Witness ==
    /\ last.op = "swap"
    /\ last.ok
    /\ last.args[1] = 1
    /\ K(Pool) > K(last.pre)

\* C5: once initialize_pool has succeeded both reserves are positive in every
\* later state; before that both are 0.
C5_ReservesPositive ==
    IF initialized THEN reserve0 > 0 /\ reserve1 > 0
    ELSE reserve0 = 0 /\ reserve1 = 0

C5_Witness ==
    /\ initialized
    /\ last.op = "remove_liquidity"
    /\ last.ok
    /\ reserve0 < last.pre.reserve0
    /\ reserve1 < last.pre.reserve1

\* C6: once initialize_pool has succeeded total_liquidity is at least
\* MINIMUM_LIQUIDITY in every later state, and a remove_liquidity whose amount
\* would bring total_liquidity below MINIMUM_LIQUIDITY fails and changes
\* nothing.
C6_TotalKeepsMinimum ==
    /\ initialized => total_liquidity >= MINIMUM_LIQUIDITY
    /\ (last.op = "remove_liquidity"
        /\ last.pre.total_liquidity - last.args[1] < MINIMUM_LIQUIDITY)
           => (~last.ok /\ Pool = last.pre)

\* a provider asked for shares it holds, and only the minimum refused them
C6_Witness ==
    /\ initialized
    /\ last.op = "remove_liquidity"
    /\ last.args[1] > 0
    /\ DictGet(last.pre.liquidity_providers, last.args[2], 0) >= last.args[1]
    /\ last.pre.total_liquidity - last.args[1] < MINIMUM_LIQUIDITY
    /\ ~last.ok

\* two outcomes agree: both fail, or both return the same value
SameOutcome(a, b) == a.ok = b.ok /\ a.ret = b.ret

\* C8: get_amount_out succeeds exactly when swap called next with the same
\* arguments succeeds, and swap returns the amount get_amount_out returned.
C8_QuoteAgreesWithSwap ==
    /\ last.op = "get_amount_out"
          => SameOutcome(last, swap(Pool, last.args[1], last.args[2]))
    /\ last.op = "swap"
          => SameOutcome(last, get_amount_out(last.pre, last.args[1], last.args[2]))

C8_Witness ==
    /\ last.op = "swap"
    /\ last.ok
    /\ last.ret = get_amount_out(last.pre, last.args[1], last.args[2]).ret
    /\ last.ret[1] > 1

\* the outputs the round trip is tried on, for the reserve r of the token
RoundTripOuts(r) == {X \in {1, 2, 29, r \div 3, r \div 2, r - 2, r - 1} : 0 < X /\ X < r}

RoundTrip(p, token_out, X) ==
    LET quoted_in == get_amount_in(p, token_out, X)
    IN /\ quoted_in.ok
       /\ LET quoted_out == get_amount_out(p, 1 - token_out, quoted_in.ret[1])
          IN quoted_out.ok /\ quoted_out.ret[1] >= X

\* C9: in an active pool, for each output token and every X with
\* 0 < X < its reserve, get_amount_in returns an input for which
\* get_amount_out on the other token succeeds and yields at least X.
C9_QuoteRoundTrip ==
    (reserve0 > 0 /\ reserve1 > 0) =>
        /\ \A X \in RoundTripOuts(reserve0) : RoundTrip(Pool, 0, X)
        /\ \A X \in RoundTripOuts(reserve1) : RoundTrip(Pool, 1, X)

\* get_amount_in was asked for all but one unit of a reserve, and answered
C9_Witness ==
    /\ last.op = "get_amount_in"
    /\ last.ok
    /\ last.args[1] = 0
    /\ last.args[2] = reserve0 - 1
    /\ RoundTrip(Pool, 0, last.args[2])
    /\ last.ret[1] > reserve1

\* C10: for every successful add_liquidity, with the pool as before the call:
\* the shares issued are at most floor(amount_i * total_liquidity / reserve_i)
\* for both tokens, used_i + refund_i = amount_i, and 0 <= used_i <= amount_i.
C10_AddLiquidityAccounting ==
    (last.op = "add_liquidity" /\ last.ok) =>
        LET pre == last.pre
            amount0 == last.args[1]
            amount1 == last.args[2]
            shares == last.ret[1]
            used0 == last.ret[2]
            used1 == last.ret[3]
            refund0 == last.ret[4]
            refund1 == last.ret[5]
        IN /\ shares <= (amount0 * pre.total_liquidity) \div pre.reserve0
           /\ shares <= (amount1 * pre.total_liquidity) \div pre.reserve1
           /\ used0 + refund0 = amount0
           /\ used1 + refund1 = amount1
           /\ 0 <= used0 /\ used0 <= amount0
           /\ 0 <= used1 /\ used1 <= amount1

\* an add that left a refund of both tokens
C10_Witness ==
    /\ last.op = "add_liquidity"
    /\ last.ok
    /\ last.ret[4] > 0
    /\ last.ret[5] > 0
    /\ reserve0 = last.pre.reserve0 + last.ret[2]

\* C11: add_liquidity never credits more shares than the tokens it keeps pay
\* for: for every successful add_liquidity and both tokens,
\* shares * reserve_i <= used_i * total_liquidity (values before the call).
C11_NoOverCredit ==
    (last.op = "add_liquidity" /\ last.ok) =>
        /\ last.ret[1] * last.pre.reserve0 <= last.ret[2] * last.pre.total_liquidity
        /\ last.ret[1] * last.pre.reserve1 <= last.ret[3] * last.pre.total_liquidity

\* C12: safe_swap_with_slippage with min_amount_out above the value
\* get_amount_out returns in the current state fails, and leaves reserve0,
\* reserve1, total_liquidity and all shares as they were.
C12_SafeSwapAboveQuoteFails ==
    LET quoted == get_amount_out(last.pre, last.args[1], last.args[2])
    IN (/\ last.op = "safe_swap_with_slippage"
        /\ quoted.ok
        /\ last.args[3] > quoted.ret[1])
           => (~last.ok /\ Pool = last.pre)

\* a safe swap of an input that quotes, refused for its minimum alone
C12_Witness ==
    /\ last.op = "safe_swap_with_slippage"
    /\ get_amount_out(last.pre, last.args[1], last.args[2]).ok
    /\ last.args[3] > get_amount_out(last.pre, last.args[1], last.args[2]).ret[1]
    /\ last.err = "AssertionError: slippage too large"
    /\ swap(last.pre, last.args[1], last.args[2]).ok

\* C13: initialize_pool takes effect once: after it has succeeded, every
\* later call of it fails and changes nothing, and total_liquidity never
\* returns to 0, whatever calls come in between.
C13_InitializeOnce ==
    [][initialized =>
          /\ total_liquidity' # 0
          /\ last'.op = "initialize_pool" => (~last'.ok /\ Pool' = Pool)]_vars

\* initialize_pool refused on a pool that other calls have changed since it
\* was initialized
C13_Witness ==
    /\ initialized
    /\ calls >= 2
    /\ last.op = "initialize_pool"
    /\ last.err = "AssertionError: already initialized"
    /\ last.args[1] * last.args[2] > MINIMUM_LIQUIDITY * MINIMUM_LIQUIDITY

\* the share mapping d with liquidity taken from provider's balance and every
\* other entry as it is
Debited(d, provider, liquidity) ==
    [x \in DOMAIN d |-> IF x = provider THEN d[x] - liquidity ELSE d[x]]

\* C14: no share balance is ever negative; remove_liquidity fails whenever
\* the amount exceeds the provider's recorded balance (no entry counting as
\* 0), and a successful removal reduces that provider's balance alone, by
\* exactly the amount.
C14_SharesNeverNegative ==
    /\ \A x \in DOMAIN liquidity_providers : liquidity_providers[x] >= 0
    /\ (last.op = "remove_liquidity"
        /\ last.args[1] > DictGet(last.pre.liquidity_providers, last.args[2], 0))
           => ~last.ok
    /\ (last.op = "remove_liquidity" /\ last.ok)
           => liquidity_providers =
                  Debited(last.pre.liquidity_providers, last.args[2], last.args[1])

\* a provider took some of its shares out while another provider held shares
C14_Witness ==
    /\ last.op = "remove_liquidity"
    /\ last.ok
    /\ last.args[2] = "Bob"
    /\ liquidity_providers["Bob"] = last.pre.liquidity_providers["Bob"] - last.args[1]
    /\ \E x \in DOMAIN liquidity_providers \ {"Bob", "LOCKED"} :
           liquidity_providers[x] > 0

\* add_liquidity of the amounts the last removal returned, by the same
\* provider, called in the state the removal left
AddedBack == add_liquidity(Pool, last.ret[1], last.ret[2], last.args[2])

\* C15: if remove_liquidity(L, p) succeeds returning (a0, a1) and
\* add_liquidity(a0, a1, p) called next succeeds, the shares issued are at
\* most L and the resulting total_liquidity, reserve0 and reserve1 are each
\* at most their values before the removal.
C15_RemoveThenAdd ==
    (last.op = "remove_liquidity" /\ last.ok /\ AddedBack.ok) =>
        /\ AddedBack.ret[1] <= last.args[1]
        /\ AddedBack.pool.total_liquidity <= last.pre.total_liquidity
        /\ AddedBack.pool.reserve0 <= last.pre.reserve0
        /\ AddedBack.pool.reserve1 <= last.pre.reserve1

\* a removal whose amounts, added back, buy fewer shares than were removed
C15_Witness ==
    /\ last.op = "remove_liquidity"
    /\ last.ok
    /\ AddedBack.ok
    /\ AddedBack.ret[1] < last.args[1]
    /\ AddedBack.pool.reserve0 < last.pre.reserve0

\* the calls that need an initialized pool
NeedsPool == {"add_liquidity", "remove_liquidity", "swap",
              "safe_swap_with_slippage", "get_amount_out", "get_amount_in"}

\* C16: on a pool that initialize_pool has never succeeded on, every call of
\* add_liquidity, remove_liquidity, swap, safe_swap_with_slippage,
\* get_amount_out and get_amount_in fails, and the pool stays all zero with
\* an empty share mapping, also after a failed initialize_pool.
C16_UninitializedPoolRefuses ==
    ~initialized =>
        /\ Pool = EmptyPool
        /\ last.op \in NeedsPool => ~last.ok
        /\ last.op = "initialize_pool" => ~last.ok

\* calls with arguments that an initialized pool accepts, refused, and an
\* initialize_pool refused for its amounts
C16_Witness ==
    /\ ~initialized
    /\ \/ (last.op = "add_liquidity" /\ last.args[1] = 100
           /\ last.err = "AssertionError: pool not initialized")
       \/ (last.op = "swap" /\ last.args = <<0, 400>> /\ ~last.ok)
       \/ (last.op = "initialize_pool" /\ last.args[1] = 1000
           /\ last.args[2] = 1000 /\ ~last.ok)

\* remove_liquidity of the shares the last add_liquidity returned, by the
\* same provider, in the state the add left
RemovedAgain == remove_liquidity(Pool, last.ret[1], last.args[3])

\* C18: after a successful add_liquidity(amount0, amount1, p) returning
\* (s, used0, used1, refund0, refund1), remove_liquidity(s, p) succeeds,
\* returns exactly (used0, used1), and restores reserve0, reserve1,
\* total_liquidity and p's share balance to their values before the add.
C18_AddThenRemove ==
    (last.op = "add_liquidity" /\ last.ok) =>
        /\ RemovedAgain.ok
        /\ RemovedAgain.ret = <<last.ret[2], last.ret[3]>>
        /\ RemovedAgain.pool.reserve0 = last.pre.reserve0
        /\ RemovedAgain.pool.reserve1 = last.pre.reserve1
        /\ RemovedAgain.pool.total_liquidity = last.pre.total_liquidity
        /\ DictGet(RemovedAgain.pool.liquidity_providers, last.args[3], 0)
               = DictGet(last.pre.liquidity_providers, last.args[3], 0)

\* an add that rounded both used amounts down and refunded part of the
\* deposit, on a pool whose reserves differ
C18_Witness ==
    /\ last.op = "add_liquidity" /\ last.ok
    /\ last.pre.reserve0 # last.pre.reserve1
    /\ last.ret[2] * last.pre.total_liquidity < last.ret[1] * last.pre.reserve0
    /\ last.ret[3] * last.pre.total_liquidity < last.ret[1] * last.pre.reserve1
    /\ last.ret[4] + last.ret[5] > 0
    /\ RemovedAgain.ok

\* the sum over the entries of the share mapping of the value of token i
\* (2 for token0, 3 for token1 in get_liquidity_info's result)
RECURSIVE SumValues(_, _, _)
SumValues(p, keys, i) ==
    IF keys = {} THEN 0
    ELSE LET x == CHOOSE y \in keys : TRUE
         IN get_liquidity_info(p, x).ret[i] + SumValues(p, keys \ {x}, i)

Owed(i) == SumValues(Pool, DOMAIN liquidity_providers, i)

\* C19: in every reachable state, for each token, the values
\* get_liquidity_info reports, summed over all entries of the share mapping
\* ("LOCKED" included), do not exceed the reserve of that token.
C19_Solvency ==
    /\ Owed(2) <= reserve0
    /\ Owed(3) <= reserve1

\* three holders after a trade, each value rounded down, the sum below the
\* reserve
C19_Witness ==
    /\ Cardinality(DOMAIN liquidity_providers) = 3
    /\ \A x \in DOMAIN liquidity_providers : liquidity_providers[x] > 0
    /\ last.op = "swap" /\ last.ok
    /\ Owed(2) > 0 /\ Owed(2) < reserve0
    /\ Owed(3) > 0 /\ Owed(3) < reserve1

\* the calls that only read the pool
ReadOnly == {"get_amount_out", "get_amount_in", "get_k_value",
             "get_liquidity_info", "get_pool_info"}

\* every balance but provider's is what it was before the last call, and
\* no other key has come or gone
OthersKept(provider) ==
    \A x \in (DOMAIN liquidity_providers \cup DOMAIN last.pre.liquidity_providers)
              \ {provider} :
        /\ x \in DOMAIN liquidity_providers
        /\ x \in DOMAIN last.pre.liquidity_providers
        /\ liquidity_providers[x] = last.pre.liquidity_providers[x]

\* C20: swap and safe_swap_with_slippage leave total_liquidity and every
\* share balance unchanged and, when they succeed, add amount_in to the
\* reserve of the token paid in and take the returned amount from the other
\* reserve; get_amount_out, get_amount_in, get_k_value, get_liquidity_info
\* and get_pool_info change no field of the pool; add_liquidity and
\* remove_liquidity change no share balance but the named provider's.
C20_Frame ==
    /\ last.op \in {"swap", "safe_swap_with_slippage"} =>
          /\ total_liquidity = last.pre.total_liquidity
          /\ liquidity_providers = last.pre.liquidity_providers
          /\ (last.ok /\ last.args[1] = 0) =>
                /\ reserve0 = last.pre.reserve0 + last.args[2]
                /\ reserve1 = last.pre.reserve1 - last.ret[1]
          /\ (last.ok /\ last.args[1] = 1) =>
                /\ reserve1 = last.pre.reserve1 + last.args[2]
                /\ reserve0 = last.pre.reserve0 - last.ret[1]
    /\ last.op \in ReadOnly => Pool = last.pre
    /\ last.op = "add_liquidity" => OthersKept(last.args[3])
    /\ last.op = "remove_liquidity" => OthersKept(last.args[2])

\* a safe swap of token1 for token0 carried out on a pool with three holders
C20_Witness ==
    /\ last.op = "safe_swap_with_slippage" /\ last.ok
    /\ last.args[1] = 1
    /\ last.ret[1] > 1
    /\ Cardinality(DOMAIN liquidity_providers) = 3

(* ======================= unbounded integers ============================= *)
\* Python's int has no width, and the class puts no upper limit on an
\* amount.  Above the range of TLC's 32-bit integers the operations are
\* modelled over naturals kept as sequences of 15-bit digits, least
\* significant first, without a leading zero digit (<< >> is 0).
LIMB == 2^15

RECURSIVE Big(_)
Big(n) == IF n = 0 THEN << >> ELSE <<n % LIMB>> \o Big(n \div LIMB)

\* LIMB^k
BigPower(k) == [i \in 1..k |-> 0] \o <<1>>

Digit(a, i) == IF i <= Len(a) THEN a[i] ELSE 0

\* the highest of the places lo..hi where a and b differ, 0 if there is none
RECURSIVE TopPlace(_, _, _, _)
TopPlace(a, b, lo, hi) ==
    IF lo = hi THEN (IF a[lo] # Digit(b, lo) THEN lo ELSE 0)
    ELSE LET top == TopPlace(a, b, (lo + hi) \div 2 + 1, hi)
         IN IF top > 0 THEN top ELSE TopPlace(a, b, lo, (lo + hi) \div 2)

\* a without its leading zero digits
BigTrim(a) ==
    IF a = << >> THEN a ELSE SubSeq(a, 1, TopPlace(a, << >>, 1, Len(a)))

\* The digit-wise operations work on the places lo..hi and hand the carry
\* from the lower half to the upper half; they return <<digits, carry>>.
\* s is the value of one place before carrying.
Carry(s) == << <<s % LIMB>>, s \div LIMB >>

\* the digits of the lower half followed by those of the upper half, and
\* the carry out of the upper half
Joined(low, high) == << low[1] \o high[1], high[2] >>

\* The half whose carry the other half needs is worked out first: the test
\* on its carry, which always holds, has TLC evaluate it before the other
\* half is entered.

\* the digits with the last carry as the leading digit
Carried(r) == IF r[2] = 0 THEN r[1] ELSE r[1] \o <<r[2]>>

RECURSIVE AddRange(_, _, _, _, _)
AddUpper(a, b, lo, hi, low) ==
    IF low[2] >= 0
    THEN Joined(low, AddRange(a, b, (lo + hi) \div 2 + 1, hi, low[2]))
    ELSE low

AddRange(a, b, lo, hi, carry) ==
    IF lo = hi THEN Carry(Digit(a, lo) + Digit(b, lo) + carry)
    ELSE AddUpper(a, b, lo, hi, AddRange(a, b, lo, (lo + hi) \div 2, carry))

BigAdd(a, b) ==
    IF a = << >> THEN b
    ELSE IF b = << >> THEN a
    ELSE Carried(AddRange(a, b, 1, IF Len(a) > Len(b) THEN Len(a) ELSE Len(b), 0))

\* a - b for a >= b; the carry is the borrow
Borrow(d) == IF d < 0 THEN << <<d + LIMB>>, 1 >> ELSE << <<d>>, 0 >>

RECURSIVE SubRange(_, _, _, _, _)
SubUpper(a, b, lo, hi, low) ==
    IF low[2] >= 0
    THEN Joined(low, SubRange(a, b, (lo + hi) \div 2 + 1, hi, low[2]))
    ELSE low

SubRange(a, b, lo, hi, borrow) ==
    IF lo = hi THEN Borrow(a[lo] - Digit(b, lo) - borrow)
    ELSE SubUpper(a, b, lo, hi, SubRange(a, b, lo, (lo + hi) \div 2, borrow))

BigSub(a, b) ==
    IF a = << >> THEN a ELSE BigTrim(SubRange(a, b, 1, Len(a), 0)[1])

\* a * d for one digit d
RECURSIVE MulDigitRange(_, _, _, _, _)
MulDigitUpper(a, d, lo, hi, low) ==
    IF low[2] >= 0
    THEN Joined(low, MulDigitRange(a, d, (lo + hi) \div 2 + 1, hi, low[2]))
    ELSE low

MulDigitRange(a, d, lo, hi, carry) ==
    IF lo = hi THEN Carry(a[lo] * d + carry)
    ELSE MulDigitUpper(a, d, lo, hi,
                       MulDigitRange(a, d, lo, (lo + hi) \div 2, carry))

BigMulDigit(a, d) ==
    IF d = 0 \/ a = << >> THEN << >>
    ELSE Carried(MulDigitRange(a, d, 1, Len(a), 0))

\* a * LIMB^k
BigShift(a, k) ==
    IF a = << >> THEN a ELSE [i \in 1..k |-> 0] \o a

\* the sum of a * b[j] * LIMB^(j-1) for j in lo..hi
RECURSIVE MulRange(_, _, _, _)
MulRange(a, b, lo, hi) ==
    IF lo = hi THEN BigShift(BigMulDigit(a, b[lo]), lo - 1)
    ELSE BigAdd(MulRange(a, b, lo, (lo + hi) \div 2),
                MulRange(a, b, (lo + hi) \div 2 + 1, hi))

BigMul(a, b) ==
    IF a = << >> \/ b = << >> THEN << >> ELSE MulRange(a, b, 1, Len(b))

\* the order of a and b of equal length, decided at their highest
\* differing place m
CmpAt(a, b, m) == IF m = 0 THEN 0 ELSE IF a[m] < b[m] THEN -1 ELSE 1

BigCmp(a, b) ==
    IF Len(a) # Len(b) THEN (IF Len(a) < Len(b) THEN -1 ELSE 1)
    ELSE IF a = << >> THEN 0
    ELSE CmpAt(a, b, TopPlace(a, b, 1, Len(a)))

BigLess(a, b) == BigCmp(a, b) < 0
BigLeq(a, b) == BigCmp(a, b) <= 0

\* One step of the long division by b, whose leading digit is at least
\* LIMB / 2, on the remainder cur with the next digit brought down.  The
\* quotient of the two leading digits of cur by the leading digit of b is
\* the quotient digit or exceeds it by at most 2.
\* <<quotient digit, new remainder>>
DivStepDigit(cur, b, d) == << <<d>>, BigSub(cur, BigMulDigit(b, d)) >>

DivStepGuess(cur, b, top) ==
    DivStepDigit(cur, b,
                 IF BigLeq(BigMulDigit(b, top), cur) THEN top
                 ELSE IF BigLeq(BigMulDigit(b, top - 1), cur) THEN top - 1
                 ELSE top - 2)

Least(m, n) == IF m < n THEN m ELSE n

DivStep(cur, b) ==
    IF BigLess(cur, b) THEN << <<0>>, cur >>
    ELSE DivStepGuess(cur, b,
                      Least(LIMB - 1,
                            (Digit(cur, Len(b) + 1) * LIMB + cur[Len(b)])
                                \div b[Len(b)]))

\* the long division of the digits a[hi], ..., a[lo] with remainder rem so
\* far: <<quotient digits, remainder>>
DivJoined(low, high) == << low[1] \o high[1], low[2] >>

RECURSIVE DivRange(_, _, _, _, _)
DivLower(a, b, lo, hi, high) ==
    IF Len(high[2]) >= 0
    THEN DivJoined(DivRange(a, b, lo, (lo + hi) \div 2, high[2]), high)
    ELSE high

DivRange(a, b, lo, hi, rem) ==
    IF lo = hi THEN DivStep(BigTrim(<<a[lo]>> \o rem), b)
    ELSE DivLower(a, b, lo, hi, DivRange(a, b, (lo + hi) \div 2 + 1, hi, rem))

DivScaled(dividend, divisor) ==
    IF dividend = << >> THEN << >>
    ELSE BigTrim(DivRange(dividend, divisor, 1, Len(dividend), << >>)[1])

\* a // b for b > 0: both are scaled so that the leading digit of the
\* divisor is at least LIMB / 2, which leaves the quotient as it is
BigDiv(a, b) ==
    DivScaled(BigMulDigit(a, LIMB \div (b[Len(b)] + 1)),
              BigMulDigit(b, LIMB \div (b[Len(b)] + 1)))

(* ======================= the class over unbounded integers ============== *)
\* The handlers below are the handlers above with every amount, reserve and
\* share kept as a digit sequence, so that calls with amounts beyond TLC's
\* integers can be followed.  Each step of a handler is an operator that
\* takes the values computed so far.

\* float(n) raises OverflowError for an int n from 2^1024 - 2^970 on, the
\* least integer that does not round to a finite double
FLOAT_OVERFLOW ==
    [i \in 1..64 |-> 0] \o <<LIMB - 2^10, LIMB - 1, LIMB - 1, LIMB - 1, 2^4 - 1>>

float_overflows(n) == BigLeq(FLOAT_OVERFLOW, n)

(* ----------------------- float ------------------------------------------ *)
\* A float is a double: a significand of MANT_DIG bits times a power of two.
MANT_DIG == 53

\* the number of bits of a digit
RECURSIVE BitsOf(_)
BitsOf(d) == IF d = 0 THEN 0 ELSE 1 + BitsOf(d \div 2)

LimbBits == BitsOf(LIMB - 1)

\* int.bit_length
BitLength(a) ==
    IF a = << >> THEN 0 ELSE LimbBits * (Len(a) - 1) + BitsOf(a[Len(a)])

\* 2^k
Pow2(k) == BigShift(<<2^(k % LimbBits)>>, k \div LimbBits)

ShiftLeft(a, k) == BigMul(a, Pow2(k))
ShiftRight(a, k) == BigDiv(a, Pow2(k))

\* float(n) for n that has one: n rounded to MANT_DIG significant bits, to
\* the nearest and in a tie to the even significand.  q is n without its
\* last s bits and c the order of those bits and half a unit of q.
float_rounded(q, s, c) ==
    ShiftLeft(IF c > 0 \/ (c = 0 /\ q[1] % 2 = 1) THEN BigAdd(q, <<1>>) ELSE q, s)

float_round_quotient(n, s, q) ==
    float_rounded(q, s, BigCmp(BigSub(n, ShiftLeft(q, s)), Pow2(s - 1)))

float_round(n) ==
    IF BitLength(n) <= MANT_DIG THEN n
    ELSE float_round_quotient(n, BitLength(n) - MANT_DIG,
                              ShiftRight(n, BitLength(n) - MANT_DIG))

\* the largest x with x * x <= n, by Newton's iteration from above
RECURSIVE SqrtNewton(_, _)
SqrtStep(n, x, y) == IF BigLess(y, x) THEN SqrtNewton(n, y) ELSE x

SqrtNewton(n, x) == SqrtStep(n, x, BigDiv(BigAdd(x, BigDiv(n, x)), <<2>>))

BigSqrt(n) ==
    IF n = << >> THEN << >> ELSE SqrtNewton(n, Pow2((BitLength(n) + 1) \div 2))

\* int(f ** 0.5) for a float f whose root lies in [2^e, 2^(e+1)).  pow
\* returns a double next to the root: the root itself if it is a double,
\* otherwise the double below it or the one above it, whichever the C
\* library picks (it is not bound to the nearer one).  The doubles of that
\* range are the multiples of 2^(e - MANT_DIG + 1); q is the root in that
\* unit, rounded down.
pow_half_fraction(k, scaled, q) ==
    IF BigMul(q, q) = scaled THEN {ShiftRight(q, k)}
    ELSE {ShiftRight(q, k), ShiftRight(BigAdd(q, <<1>>), k)}

pow_half_whole(f, k, q) ==
    IF ShiftLeft(BigMul(q, q), 2 * k) = f THEN {ShiftLeft(q, k)}
    ELSE {ShiftLeft(q, k), ShiftLeft(BigAdd(q, <<1>>), k)}

pow_half_scaled(k, scaled) == pow_half_fraction(k, scaled, BigSqrt(scaled))

pow_half(f, e) ==
    IF e < MANT_DIG
    THEN pow_half_scaled(MANT_DIG - 1 - e, ShiftLeft(f, 2 * (MANT_DIG - 1 - e)))
    ELSE pow_half_whole(f, e - (MANT_DIG - 1),
                        BigSqrt(ShiftRight(f, 2 * (e - (MANT_DIG - 1)))))

pow_half_float(f) == pow_half(f, (BitLength(f) - 1) \div 2)

\* the values int(n ** 0.5) can take, for n with a float
int_pow_half_big(n) ==
    IF n = << >> THEN {<< >>} ELSE pow_half_float(float_round(n))

EmptyPoolBig ==
    [reserve0 |-> << >>, reserve1 |-> << >>, total_liquidity |-> << >>,
     liquidity_providers |-> [x \in {} |-> << >>]]

\* the checks of initialize_pool on the product of the amounts and on
\* liquidity, the value int(liquidity_squared ** 0.5) took, and its update
initialize_product_big(p, amount0, amount1, provider, liquidity, liquidity_squared) ==
    IF BigLess(liquidity_squared, Big(MINIMUM_LIQUIDITY * MINIMUM_LIQUIDITY))
    THEN Raise("AssertionError: initial liquidity too small", p)
    ELSE IF float_overflows(liquidity_squared)
    THEN Raise("OverflowError: int too large to convert to float", p)
    ELSE IF BigLeq(liquidity, Big(MINIMUM_LIQUIDITY))
    THEN Raise("AssertionError: computed liquidity too small", p)
    ELSE Return(<<BigSub(liquidity, Big(MINIMUM_LIQUIDITY))>>,
                [reserve0 |-> amount0, reserve1 |-> amount1,
                 total_liquidity |-> liquidity,
                 liquidity_providers |->
                     DictSet(DictSet(p.liquidity_providers, "LOCKED",
                                     Big(MINIMUM_LIQUIDITY)),
                             provider, BigSub(liquidity, Big(MINIMUM_LIQUIDITY)))])

\* liquidity is one of int_pow_half_big(amount0 * amount1)
initialize_pool_big(p, amount0, amount1, provider, liquidity) ==
    IF p.total_liquidity # << >>
    THEN Raise("AssertionError: already initialized", p)
    ELSE IF amount0 = << >> \/ amount1 = << >>
    THEN Raise("AssertionError: amounts must be positive", p)
    ELSE initialize_product_big(p, amount0, amount1, provider, liquidity,
                                BigMul(amount0, amount1))

\* the update of add_liquidity and its result
add_update_big(p, amount0, amount1, provider, liquidity, actual_amount0, actual_amount1) ==
    Return(<<liquidity, actual_amount0, actual_amount1,
             BigSub(amount0, actual_amount0), BigSub(amount1, actual_amount1)>>,
           [reserve0 |-> BigAdd(p.reserve0, actual_amount0),
            reserve1 |-> BigAdd(p.reserve1, actual_amount1),
            total_liquidity |-> BigAdd(p.total_liquidity, liquidity),
            liquidity_providers |->
                DictSet(p.liquidity_providers, provider,
                        BigAdd(DictGet(p.liquidity_providers, provider, << >>),
                               liquidity))])

\* the amounts used for min_share shares
add_shares_big(p, amount0, amount1, provider, min_share) ==
    IF min_share = << >> THEN Raise("AssertionError: liquidity too small", p)
    ELSE add_update_big(p, amount0, amount1, provider, min_share,
             BigDiv(BigMul(min_share, p.reserve0), p.total_liquidity),
             BigDiv(BigMul(min_share, p.reserve1), p.total_liquidity))

min_big(share0, share1) == IF BigLeq(share0, share1) THEN share0 ELSE share1

add_liquidity_big(p, amount0, amount1, provider) ==
    IF amount0 = << >> \/ amount1 = << >>
    THEN Raise("AssertionError: amounts must be positive", p)
    ELSE IF p.reserve0 = << >> \/ p.reserve1 = << >>
    THEN Raise("AssertionError: pool not initialized", p)
    ELSE IF p.total_liquidity = << >>
    THEN Raise("AssertionError: total liquidity abnormal", p)
    ELSE add_shares_big(p, amount0, amount1, provider,
             min_big(BigDiv(BigMul(amount0, p.total_liquidity), p.reserve0),
                     BigDiv(BigMul(amount1, p.total_liquidity), p.reserve1)))

\* numerator // denominator of swap and of get_amount_out
amount_out_fee_big(reserve_in, reserve_out, amount_in_with_fee) ==
    BigDiv(BigMul(amount_in_with_fee, reserve_out),
           BigAdd(BigMul(reserve_in, Big(FEE_DENOMINATOR)), amount_in_with_fee))

amount_out_big(reserve_in, reserve_out, amount_in) ==
    amount_out_fee_big(reserve_in, reserve_out,
                       BigMul(amount_in, Big(FEE_NUMERATOR)))

\* the checks of swap on amount_out, and its update of the reserves
swap_update_big(p, token_in, amount_in, reserve_out, amount_out) ==
    IF amount_out = << >> THEN Raise("AssertionError: output too small", p)
    ELSE IF BigLeq(reserve_out, amount_out)
    THEN Raise("AssertionError: output exceeds reserve", p)
    ELSE IF token_in = 0
    THEN Return(<<amount_out>>,
                [p EXCEPT !.reserve0 = BigAdd(p.reserve0, amount_in),
                          !.reserve1 = BigSub(p.reserve1, amount_out)])
    ELSE Return(<<amount_out>>,
                [p EXCEPT !.reserve1 = BigAdd(p.reserve1, amount_in),
                          !.reserve0 = BigSub(p.reserve0, amount_out)])

swap_big(p, token_in, amount_in) ==
    IF token_in \notin {0, 1} THEN Raise("TypeError: token_in must be 0 or 1", p)
    ELSE IF amount_in = << >> THEN Raise("AssertionError: amount must be positive", p)
    ELSE IF p.reserve0 = << >> \/ p.reserve1 = << >>
    THEN Raise("AssertionError: pool not initialized", p)
    ELSE IF token_in = 0
    THEN swap_update_big(p, token_in, amount_in, p.reserve1,
                         amount_out_big(p.reserve0, p.reserve1, amount_in))
    ELSE swap_update_big(p, token_in, amount_in, p.reserve0,
                         amount_out_big(p.reserve1, p.reserve0, amount_in))

\* the checks of get_amount_out on amount_out
quote_checked_big(p, reserve_out, amount_out) ==
    IF amount_out = << >> THEN Raise("AssertionError: output too small", p)
    ELSE IF BigLeq(reserve_out, amount_out)
    THEN Raise("AssertionError: input too large for the pool", p)
    ELSE Return(<<amount_out>>, p)

get_amount_out_big(p, token_in, amount_in) ==
    IF token_in \notin {0, 1} THEN Raise("TypeError: token_in must be 0 or 1", p)
    ELSE IF amount_in = << >> THEN Raise("AssertionError: amount must be positive", p)
    ELSE IF p.reserve0 = << >> \/ p.reserve1 = << >>
    THEN Raise("AssertionError: pool not initialized", p)
    ELSE IF token_in = 0
    THEN quote_checked_big(p, p.reserve1,
                           amount_out_big(p.reserve0, p.reserve1, amount_in))
    ELSE quote_checked_big(p, p.reserve0,
                           amount_out_big(p.reserve1, p.reserve0, amount_in))

get_k_value_big(p) == BigMul(p.reserve0, p.reserve1)

\* new_k >= old_k * (1.0 - tolerance): the product converts old_k to a float
\* and raises OverflowError when it has no finite double; otherwise the
\* comparison is made as in verify_k_invariant above (the product is rounded
\* to 53 bits, which decides differently only for a new_k within 2^-52 of
\* the limit; a swap never lowers k)
verify_k_invariant_big(p, old_k) ==
    IF float_overflows(old_k)
    THEN Raise("OverflowError: int too large to convert to float", p)
    ELSE Return(<<BigLeq(BigSub(old_k, BigDiv(old_k, Big(TOLERANCE_INV))),
                         get_k_value_big(p))>>, p)

\* the checks of safe_swap_with_slippage after the swap
safe_swap_verified_big(swapped, verified, min_amount_out) ==
    IF ~verified.ok THEN Raise(verified.err, swapped.pool)
    ELSE IF ~verified.ret[1]
    THEN Raise("AssertionError: k invariant check failed", swapped.pool)
    ELSE IF BigLess(swapped.ret[1], min_amount_out)
    THEN Raise("AssertionError: output below minimum", swapped.pool)
    ELSE Return(<<swapped.ret[1]>>, swapped.pool)

safe_swap_swapped_big(swapped, old_k, min_amount_out) ==
    IF ~swapped.ok THEN Raise(swapped.err, swapped.pool)
    ELSE safe_swap_verified_big(swapped,
                                verify_k_invariant_big(swapped.pool, old_k),
                                min_amount_out)

safe_swap_predicted_big(p, token_in, amount_in, min_amount_out, predicted) ==
    IF ~predicted.ok THEN Raise(predicted.err, p)
    ELSE IF BigLess(predicted.ret[1], min_amount_out)
    THEN Raise("AssertionError: slippage too large", p)
    ELSE safe_swap_swapped_big(swap_big(p, token_in, amount_in),
                               get_k_value_big(p), min_amount_out)

safe_swap_with_slippage_big(p, token_in, amount_in, min_amount_out) ==
    safe_swap_predicted_big(p, token_in, amount_in, min_amount_out,
                            get_amount_out_big(p, token_in, amount_in))

(* ----------------------- the state machine ------------------------------ *)
InitBig ==
    /\ reserve0 = << >>
    /\ reserve1 = << >>
    /\ total_liquidity = << >>
    /\ liquidity_providers = [x \in {} |-> << >>]
    /\ last = [op |-> "__init__", args |-> <<>>, ok |-> TRUE, err |-> "",
               ret |-> <<>>, pre |-> EmptyPoolBig]
    /\ calls = 0
    /\ initialized = FALSE

\* the effect of a call with outcome res, as Call, without a limit on the
\* numbers
CallBig(op, args, res) ==
    /\ res.pool # Pool => calls < MaxCalls
    /\ reserve0' = res.pool.reserve0
    /\ reserve1' = res.pool.reserve1
    /\ total_liquidity' = res.pool.total_liquidity
    /\ liquidity_providers' = res.pool.liquidity_providers
    /\ last' = [op |-> op, args |-> args, ok |-> res.ok, err |-> res.err,
                ret |-> res.ret, pre |-> Pool]
    /\ calls' = IF res.pool # Pool THEN calls + 1 ELSE calls
    /\ initialized' = (initialized \/ (op = "initialize_pool" /\ res.ok))

\* amounts of an everyday size and the amount 2^525
BigAmounts == {Big(100), BigPower(35)}
BigSwapAmounts == {Big(400)}
BigMinOuts == {Big(1), Big(400)}

\* the values int(liquidity_squared ** 0.5) can take in initialize_pool; where
\* the product has no float, or the call fails before, none is used
initialize_pool_roots(amount0, amount1) ==
    IF float_overflows(BigMul(amount0, amount1)) THEN {<< >>}
    ELSE int_pow_half_big(BigMul(amount0, amount1))

InitializePoolBig ==
    \E amount0 \in InitAmounts0, amount1 \in InitAmounts1 :
        \E liquidity \in initialize_pool_roots(Big(amount0), Big(amount1)) :
            CallBig("initialize_pool", <<Big(amount0), Big(amount1), "Alice">>,
                    initialize_pool_big(Pool, Big(amount0), Big(amount1), "Alice",
                                        liquidity))

AddLiquidityBig ==
    \E amount0 \in BigAmounts, amount1 \in BigAmounts :
        CallBig("add_liquidity", <<amount0, amount1, "Bob">>,
                add_liquidity_big(Pool, amount0, amount1, "Bob"))

SwapBig ==
    \E token_in \in {0, 1}, amount_in \in BigSwapAmounts :
        CallBig("swap", <<token_in, amount_in>>,
                swap_big(Pool, token_in, amount_in))

SafeSwapBig ==
    \E token_in \in {0, 1}, amount_in \in BigSwapAmounts,
       min_amount_out \in BigMinOuts :
        CallBig("safe_swap_with_slippage",
                <<token_in, amount_in, min_amount_out>>,
                safe_swap_with_slippage_big(Pool, token_in, amount_in,
                                            min_amount_out))

GetAmountOutBig ==
    \E token_in \in {0, 1}, amount_in \in BigSwapAmounts :
        CallBig("get_amount_out", <<token_in, amount_in>>,
                get_amount_out_big(Pool, token_in, amount_in))

NextBig ==
    \/ InitializePoolBig
    \/ AddLiquidityBig
    \/ SwapBig
    \/ SafeSwapBig
    \/ GetAmountOutBig

SpecBig == InitBig /\ [][NextBig]_vars

\* initialize_pool on the constructed pool, with amounts whose product has
\* more bits than the significand of a double: amounts next to 2^26, to
\* 2^26.5 and to 2^60, and 2^525
WideAmountsBig ==
    {Big(1), Big(1200), Big(2^26), Big(2^26 + 1),
     Big(94906266), Big(94906267), Big(94906268),
     BigSub(BigPower(4), <<1>>), BigPower(4), BigAdd(BigPower(4), <<1>>),
     BigPower(35)}

InitializeEmptyPoolBig ==
    /\ total_liquidity = << >>
    /\ \E amount0 \in WideAmountsBig, amount1 \in WideAmountsBig :
           \E liquidity \in initialize_pool_roots(amount0, amount1) :
               CallBig("initialize_pool", <<amount0, amount1, "Alice">>,
                       initialize_pool_big(Pool, amount0, amount1, "Alice",
                                           liquidity))

NextInitBig == InitializeEmptyPoolBig

SpecInitBig == InitBig /\ [][NextInitBig]_vars

\* what C7 says of a call of initialize_pool with the given product of
\* amounts: it succeeded, the reserves are the amounts, total_liquidity is
\* the integer square root of the product and the shares returned are
\* total_liquidity less the locked minimum
InitializedAsClaimed(product, liquidity) ==
    /\ last.ok
    /\ reserve0 = last.args[1]
    /\ reserve1 = last.args[2]
    /\ BigLeq(BigMul(liquidity, liquidity), product)
    /\ BigLess(product, BigMul(BigAdd(liquidity, <<1>>), BigAdd(liquidity, <<1>>)))
    /\ last.ret = <<BigSub(liquidity, Big(MINIMUM_LIQUIDITY))>>

\* C7: for every pair of positive amounts whose product is at least
\* MINIMUM_LIQUIDITY^2, initialize_pool on an empty pool succeeds with
\* reserves equal to the amounts and total_liquidity = floor(sqrt(product)),
\* returning total_liquidity - MINIMUM_LIQUIDITY.
C7_InitializeFromMinimumSquared ==
    (/\ last.op = "initialize_pool"
     /\ last.pre = EmptyPoolBig
     /\ last.args[1] # << >>
     /\ last.args[2] # << >>
     /\ BigLeq(Big(MINIMUM_LIQUIDITY * MINIMUM_LIQUIDITY),
               BigMul(last.args[1], last.args[2])))
        => InitializedAsClaimed(BigMul(last.args[1], last.args[2]), total_liquidity)

\* the last call returned what get_amount_out had answered before it
ReturnsQuote(quoted) ==
    (quoted.ok /\ BigLeq(last.args[3], quoted.ret[1]))
        => (last.ok /\ last.ret = quoted.ret)

\* C17: whenever get_amount_out succeeds on the state before a
\* safe_swap_with_slippage and its result is at least min_amount_out, the
\* safe swap succeeds and returns exactly that result: it never fails after
\* the swap inside it has changed the reserves.
C17_SafeSwapReturnsQuote ==
    last.op = "safe_swap_with_slippage" =>
        ReturnsQuote(get_amount_out_big(last.pre, last.args[1], last.args[2]))

====
